---------------------------- MODULE Spec2Model ----------------------------
(***************************************************************************)
(* Model of xkcdfs-fuse (src/src/fs.rs): the XkcdFs filesystem object, its *)
(* helpers (get_latest_num, get_file_attr, read_data) and the five FUSE    *)
(* handlers lookup, getattr, read, readlink and readdir.                   *)
(*                                                                         *)
(* Text is modelled as a sequence of one-byte strings, so that byte length *)
(* is Len and parsing / decimal rendering are computed, not assumed.       *)
(* TLC integers are 32 bits wide: the machine word of the model is scaled  *)
(* to 31 bits (USIZE_MAX = 2^31 - 1) and the signed offset to 30 value     *)
(* bits (I64_MAX = 2^30 - 1), which keeps USIZE_MAX = 2 * I64_MAX + 1; the *)
(* largest size drawn is USIZE_MAX, so offset + size does exceed the word. *)
(***************************************************************************)
EXTENDS Integers, Sequences, FiniteSets, TLC

\* latest_num, comics: the fields of XkcdFs.  request, reply: the request in
\* service and the reply sent for it.  panicked: an `expect` has failed and
\* the session is gone.  History of the run, read by the properties only:
\* fetches (requests made to the remote), latest_calls (calls of
\* get_latest_num: 0, 1, or 2 for "two or more") and listing (what a caller
\* that pages through one directory has collected so far).
VARIABLES latest_num, comics, panicked, fetches, latest_calls, request, reply,
          listing

vars ==
  <<latest_num, comics, panicked, fetches, latest_calls, request, reply,
    listing>>

----------------------------------------------------------------------------
(* Bounds of the model *)

\* Largest item number the remote reports as the latest.
MaxLatest == 3
\* Longest name drawn from NameChars (the fixed names are added to these).
MaxNameLen == 2
\* Offsets 0..MaxOffset are drawn, besides those around the content lengths.
MaxOffset == 3
\* Sizes 0..MaxSize are drawn, besides those around the content lengths.
MaxSize == 3
\* Entries the directory reply buffer of the consumer accepts: 0..MaxCap.
MaxCap == 8
\* A latest item number of more than one decimal digit.
MultiDigitLatest == 12

----------------------------------------------------------------------------
(* Program constants *)

ENOENT == 2
EINVAL == 22
TTL == 1
COMIC_INODE_SHIFT == 1000
FIELD_FILE_SIZE == 4096
PERM_DIR == 365
PERM_FILE == 292
USIZE_MAX == 2147483647
I64_MAX == 1073741823

XKCD_DESKTOP_CONTENT ==
  <<
    "[", "D", "e", "s", "k", "t", "o", "p", " ", "E", "n", "t", "r", "y",
    "]", "\n", "T", "y", "p", "e", "=", "L", "i", "n", "k", "\n", "N", "a",
    "m", "e", "=", "X", "K", "C", "D", "\n", "U", "R", "L", "=", "h", "t",
    "t", "p", "s", ":", "/", "/", "x", "k", "c", "d", ".", "c", "o", "m",
    "/", "\n" >>

ABOUT_CONTENT ==
  <<
    "x", "k", "c", "d", "f", "s", "-", "f", "u", "s", "e", " ", "i", "s",
    " ", "a", " ", "u", "n", "a", "f", "f", "i", "l", "a", "t", "e", "d",
    " ", "f", "a", "n", " ", "p", "r", "o", "j", "e", "c", "t", " ", "f",
    "o", "r", " ", "l", "o", "o", "k", "i", "n", "g", " ", "a", "t", " ",
    "X", "K", "C", "D", " ", "c", "o", "m", "i", "c", "s", ".", "\n", "\n",
    "\n", "x", "k", "c", "d", " ", "i", "s", " ", "b", "y", " ", "R", "a",
    "n", "d", "a", "l", "l", " ", "M", "u", "n", "r", "o", "e", ".", "\n" >>

----------------------------------------------------------------------------
(* Names, parsing and decimal rendering *)

\* A byte of an OsStr that is not part of any UTF-8 text.
InvalidByte == "0xFF"

DigitChars == <<"0", "1", "2", "3", "4", "5", "6", "7", "8", "9">>

IsDigit(c) == \E d \in 1..10 : DigitChars[d] = c

DigitVal(c) == (CHOOSE d \in 1..10 : DigitChars[d] = c) - 1

None == [some |-> FALSE, val |-> 0]

Some(v) == [some |-> TRUE, val |-> v]

\* OsStr::to_str: the text of the name, or None when it is not UTF-8.
to_str(name) ==
  IF \E i \in 1..Len(name) : name[i] = InvalidByte
  THEN [some |-> FALSE, val |-> <<>>]
  ELSE [some |-> TRUE, val |-> name]

RECURSIVE DigitsValue(_)
DigitsValue(ds) ==
  IF ds = <<>> THEN 0
  ELSE 10 * DigitsValue(SubSeq(ds, 1, Len(ds) - 1)) + DigitVal(ds[Len(ds)])

\* str::parse::<u64>: an optional leading "+", then one or more decimal
\* digits.  (Names are short enough here for the value to fit in u64.)
parse_u64(name) ==
  LET ds == IF name # <<>> /\ name[1] = "+" THEN Tail(name) ELSE name
  IN  IF ds # <<>> /\ \A i \in 1..Len(ds) : IsDigit(ds[i])
      THEN Some(DigitsValue(ds))
      ELSE None

\* u64::to_string: the decimal digits without sign or leading zeros.
RECURSIVE to_string(_)
to_string(n) ==
  IF n < 10 THEN <<DigitChars[n + 1]>>
  ELSE Append(to_string(n \div 10), DigitChars[(n % 10) + 1])

NAME_LATEST == <<"l", "a", "t", "e", "s", "t">>
NAME_DESKTOP == <<"x", "k", "c", "d", ".", "d", "e", "s", "k", "t", "o", "p">>
NAME_ABOUT == <<"a", "b", "o", "u", "t", ".", "t", "x", "t">>
NAME_TITLE == <<"t", "i", "t", "l", "e", ".", "t", "x", "t">>
NAME_ALT == <<"a", "l", "t", ".", "t", "x", "t">>
NAME_IMAGE == <<"i", "m", "a", "g", "e", ".", "p", "n", "g">>
NAME_DOT == <<".">>
NAME_DOTDOT == <<".", ".">>

----------------------------------------------------------------------------
(* Inputs *)

\* The characters short names are built from: the digits up to
\* MaxLatest + 1 and the sign that parse accepts.
NameChars == {DigitChars[d] : d \in 1..(MaxLatest + 2)} \cup {"+"}

ShortNames == UNION {[1..n -> NameChars] : n \in 1..MaxNameLen}

NameSet ==
  ShortNames \cup
  {NAME_LATEST, NAME_DESKTOP, NAME_ABOUT, NAME_TITLE, NAME_ALT, NAME_IMAGE,
   NAME_DOT, <<>>, <<"f", "o", "o">>, <<"1", InvalidByte>>, <<InvalidByte>>}

\* Inode values: for every item number 0..MaxLatest+1 the directory, the
\* three field files and unassigned remainders; this covers 0..7, 100, 999.
InoSet ==
  {n * COMIC_INODE_SHIFT + k :
     n \in 0..(MaxLatest + 1), k \in {0, 1, 2, 3, 4, 5, 6, 7, 100, 999}}

ContentLens == {Len(XKCD_DESKTOP_CONTENT), Len(ABOUT_CONTENT)}

OffsetSet ==
  {-I64_MAX, -1} \cup (0..MaxOffset)
  \cup {l + d : l \in ContentLens, d \in {-1, 0, 1}} \cup {I64_MAX}

SizeSet ==
  (0..MaxSize)
  \cup {l + d : l \in ContentLens, d \in {-1, 0, 1}} \cup {USIZE_MAX}

\* What the remote may answer to the fetch of the latest comic.
TitleSet == {<<"H", "i", "!">>, <<"B", "a", "r", "r">>}

RemoteNums == (1..MaxLatest) \cup {MultiDigitLatest}

RemoteComics ==
  {[num |-> n, title |-> t, alt |-> <<"a", "l", "t", " ">> \o t,
    img |-> <<"h", "t", "t", "p", "s", ":", "/", "/", "i", "/">> \o to_string(n)]
     : n \in RemoteNums, t \in TitleSet}

\* The outcome of reqwest::blocking::get(...).json(): a comic, or an error
\* (the transport or the decoding failed).
RemoteAnswers ==
  {[ok |-> TRUE, comic |-> c] : c \in RemoteComics}
  \cup {[ok |-> FALSE, comic |-> <<>>]}

----------------------------------------------------------------------------
(* State: the fields of XkcdFs, bundled for the helpers *)

\* comics is a map from item number to record: a function on its key set.
EmptyMap == <<>>

Insert(map, key, value) ==
  [k \in (DOMAIN map) \cup {key} |-> IF k = key THEN value ELSE map[k]]

State ==
  [latest_num |-> latest_num, comics |-> comics, panicked |-> panicked,
   fetches |-> fetches, latest_calls |-> latest_calls]

\* get_latest_comic: one request to the remote, whose answer is remote.  On
\* an error either `expect` panics and nothing is assigned.
get_latest_comic(s, remote) ==
  IF ~remote.ok
  THEN [s EXCEPT !.panicked = TRUE, !.fetches = @ + 1]
  ELSE [s EXCEPT !.latest_num = remote.comic.num,
                 !.comics = Insert(s.comics, remote.comic.num, remote.comic),
                 !.fetches = @ + 1]

\* get_latest_num without the latest_num == 0 test: fetches on every call.
get_latest_num_uncached(s, remote) ==
  get_latest_comic([s EXCEPT !.latest_calls = IF @ < 2 THEN @ + 1 ELSE 2],
                   remote)

\* get_latest_num: the state after the call; its result is .latest_num.
get_latest_num(s, remote) ==
  LET called == [s EXCEPT !.latest_calls = IF @ < 2 THEN @ + 1 ELSE 2]
  IN  IF s.latest_num = 0 THEN get_latest_comic(called, remote) ELSE called

\* inode_to_comic: Option<&XkcdComic>.
inode_to_comic(s, inode) ==
  IF inode > Cardinality(DOMAIN s.comics) THEN [some |-> FALSE, val |-> <<>>]
  ELSE IF inode < COMIC_INODE_SHIFT THEN [some |-> FALSE, val |-> <<>>]
  ELSE LET comic_num == inode \div COMIC_INODE_SHIFT
       IN  IF comic_num \in DOMAIN s.comics
           THEN [some |-> TRUE, val |-> s.comics[comic_num]]
           ELSE [some |-> FALSE, val |-> <<>>]

----------------------------------------------------------------------------
(* Attributes *)

NoAttr ==
  [ino |-> 0, size |-> 0, blocks |-> 0, kind |-> "None", perm |-> 0, nlink |-> 0]

DIR_ATTR ==
  [ino |-> 1, size |-> 0, blocks |-> 0, kind |-> "Directory",
   perm |-> PERM_DIR, nlink |-> 2]

\* The size written as a miscounted literal instead of the content's length.
XKCD_DESKTOP_ATTR_miscounted ==
  [ino |-> 2, size |-> Len(XKCD_DESKTOP_CONTENT) + 1, blocks |-> 1,
   kind |-> "RegularFile", perm |-> PERM_FILE, nlink |-> 1]

XKCD_DESKTOP_ATTR ==
  [ino |-> 2, size |-> Len(XKCD_DESKTOP_CONTENT), blocks |-> 1,
   kind |-> "RegularFile", perm |-> PERM_FILE, nlink |-> 1]

ABOUT_ATTR ==
  [ino |-> 3, size |-> Len(ABOUT_CONTENT), blocks |-> 1,
   kind |-> "RegularFile", perm |-> PERM_FILE, nlink |-> 1]

create_file_attr(ino, size) ==
  [ino |-> ino, size |-> size, blocks |-> 1, kind |-> "RegularFile",
   perm |-> PERM_FILE, nlink |-> 1]

Ok(v) == [ok |-> TRUE, val |-> v, err |-> 0]

\* get_file_attr with the item arms limited to the latest id known so far.
get_file_attr_range_checked(s, ino, remote) ==
  LET s1 == IF ino = 100 THEN get_latest_num(s, remote) ELSE s
      known == ino \div COMIC_INODE_SHIFT <= s1.latest_num
      res ==
        IF ino = 1 THEN Ok(DIR_ATTR)
        ELSE IF ino = 2 THEN Ok(XKCD_DESKTOP_ATTR)
        ELSE IF ino = 3 THEN Ok(ABOUT_ATTR)
        ELSE IF ino = 100 THEN
          Ok([ino |-> 100, size |-> Len(to_string(s1.latest_num)),
              blocks |-> 0, kind |-> "Symlink", perm |-> PERM_FILE,
              nlink |-> 1])
        ELSE IF known /\ ino % COMIC_INODE_SHIFT = 0 THEN
          Ok([ino |-> ino, size |-> 0, blocks |-> 0, kind |-> "Directory",
              perm |-> PERM_DIR, nlink |-> 2])
        ELSE IF known /\ ino % COMIC_INODE_SHIFT \in {4, 5, 6} THEN
          Ok(create_file_attr(ino, FIELD_FILE_SIZE))
        ELSE [ok |-> FALSE, val |-> NoAttr, err |-> ENOENT]
  IN  [s |-> s1, res |-> res]

\* get_file_attr: Result<FileAttr, i32>, and the state it leaves (only the
\* arm of inode 100 calls get_latest_num).  The arms are tried in order.
get_file_attr(s, ino, remote) ==
  LET s1 == IF ino = 100 THEN get_latest_num(s, remote) ELSE s
      res ==
        IF ino = 1 THEN Ok(DIR_ATTR)
        ELSE IF ino = 2 THEN Ok(XKCD_DESKTOP_ATTR)
        ELSE IF ino = 3 THEN Ok(ABOUT_ATTR)
        ELSE IF ino = 100 THEN
          Ok([ino |-> 100, size |-> Len(to_string(s1.latest_num)),
              blocks |-> 0, kind |-> "Symlink", perm |-> PERM_FILE,
              nlink |-> 1])
        ELSE IF ino % COMIC_INODE_SHIFT = 0 THEN
          Ok([ino |-> ino, size |-> 0, blocks |-> 0, kind |-> "Directory",
              perm |-> PERM_DIR, nlink |-> 2])
        ELSE IF ino % COMIC_INODE_SHIFT = 4 THEN
          Ok(create_file_attr(ino, FIELD_FILE_SIZE))
        ELSE IF ino % COMIC_INODE_SHIFT = 5 THEN
          Ok(create_file_attr(ino, FIELD_FILE_SIZE))
        ELSE IF ino % COMIC_INODE_SHIFT = 6 THEN
          Ok(create_file_attr(ino, FIELD_FILE_SIZE))
        ELSE [ok |-> FALSE, val |-> NoAttr, err |-> ENOENT]
  IN  [s |-> s1, res |-> res]

----------------------------------------------------------------------------
(* Content *)

Min(a, b) == IF a < b THEN a ELSE b

\* usize::wrapping_add: what a plain offset + size does in a release build.
wrapping_add(a, b) ==
  IF b > USIZE_MAX - a THEN (a - (USIZE_MAX - b)) - 1 ELSE a + b

\* usize::saturating_add.
saturating_add(a, b) == IF b > USIZE_MAX - a THEN USIZE_MAX ELSE a + b

\* `offset as usize` of a signed offset: a negative one wraps around.
as_usize(offset) ==
  IF offset < 0 THEN USIZE_MAX - ((0 - offset) - 1) ELSE offset

\* data[from..to) of a slice, 0-based as in the source.
Slice(data, from, to) == SubSeq(data, from + 1, to)

\* read_data: Result<&[u8], i32>.
read_data(ino, offset, size) ==
  IF ino \notin {2, 3} THEN [ok |-> FALSE, val |-> <<>>, err |-> ENOENT]
  ELSE
    LET data == IF ino = 2 THEN XKCD_DESKTOP_CONTENT ELSE ABOUT_CONTENT
    IN  IF offset < 0 THEN [ok |-> FALSE, val |-> <<>>, err |-> EINVAL]
        ELSE IF offset >= Len(data) THEN Ok(<<>>)
        ELSE LET end == Min(saturating_add(offset, size), Len(data))
             IN  Ok(Slice(data, offset, end))

----------------------------------------------------------------------------
(* Replies *)

NoReply ==
  [kind |-> "none", errno |-> 0, attr |-> NoAttr, ttl |-> 0, data |-> <<>>,
   entries |-> <<>>]

\* An error path that returns without calling reply.error.
ReplyError_dropped(e) == NoReply

ReplyError(e) == [NoReply EXCEPT !.kind = "error", !.errno = e]

ReplyEntry(attr) == [NoReply EXCEPT !.kind = "entry", !.attr = attr, !.ttl = TTL]

ReplyAttr(attr) == [NoReply EXCEPT !.kind = "attr", !.attr = attr, !.ttl = TTL]

ReplyData(data) == [NoReply EXCEPT !.kind = "data", !.data = data]

ReplyDir(entries) == [NoReply EXCEPT !.kind = "dir", !.entries = entries]

Req(op, ino, name, offset, size, cap) ==
  [op |-> op, ino |-> ino, name |-> name, offset |-> offset, size |-> size,
   cap |-> cap]

NoRequest == Req("none", 0, <<>>, 0, 0, 0)

----------------------------------------------------------------------------
(* The handlers: each yields the state it leaves and the one reply it     *)
(* sends.  A handler in which get_latest_comic panicked has unwound at    *)
(* that point: Serve takes from it the panic alone, and no reply.         *)

Done(s, r) == [s |-> s, reply |-> r]

\* lookup.  The closure of filter, and with it get_latest_num, runs only
\* when the name parsed.
lookup(s, parent, name, remote) ==
  LET str == to_str(name)
  IN  IF ~str.some THEN Done(s, ReplyError(EINVAL))
      ELSE
        LET parsed == parse_u64(str.val)
            s1 == IF parsed.some THEN get_latest_num(s, remote) ELSE s
            comic_num ==
              IF parsed.some /\ 1 <= parsed.val /\ parsed.val <= s1.latest_num
              THEN parsed ELSE None
            ino ==
              IF comic_num.some THEN Some(comic_num.val * COMIC_INODE_SHIFT)
              ELSE IF parent % COMIC_INODE_SHIFT = 0 THEN
                IF str.val = NAME_TITLE THEN Some(4)
                ELSE IF str.val = NAME_ALT THEN Some(5)
                ELSE IF str.val = NAME_IMAGE THEN Some(6)
                ELSE None
              ELSE
                IF parent = 1 /\ str.val = NAME_LATEST THEN Some(100)
                ELSE IF parent = 1 /\ str.val = NAME_DESKTOP THEN Some(2)
                ELSE IF parent = 1 /\ str.val = NAME_ABOUT THEN Some(3)
                ELSE None
        IN  IF ~ino.some THEN Done(s1, ReplyError(ENOENT))
            ELSE LET a == get_file_attr(s1, ino.val, remote)
                 IN  IF a.res.ok THEN Done(a.s, ReplyEntry(a.res.val))
                     ELSE Done(a.s, ReplyError(a.res.err))

getattr(s, ino, remote) ==
  LET a == get_file_attr(s, ino, remote)
  IN  IF a.res.ok THEN Done(a.s, ReplyAttr(a.res.val))
      ELSE Done(a.s, ReplyError(a.res.err))

read(s, ino, offset, size) ==
  LET d == read_data(ino, offset, size)
  IN  IF d.ok THEN Done(s, ReplyData(d.val)) ELSE Done(s, ReplyError(d.err))

\* readlink sending the target as a C string, with its terminating NUL.
readlink_nul_terminated(s, ino, remote) ==
  IF ino = 100
  THEN LET s1 == get_latest_num(s, remote)
       IN  Done(s1, ReplyData(Append(to_string(s1.latest_num), "NUL")))
  ELSE Done(s, ReplyError(ENOENT))

readlink(s, ino, remote) ==
  IF ino = 100
  THEN LET s1 == get_latest_num(s, remote)
       IN  Done(s1, ReplyData(to_string(s1.latest_num)))
  ELSE Done(s, ReplyError(ENOENT))

DirEntry(ino, kind, name) == [ino |-> ino, kind |-> kind, name |-> name]

\* The root entries with the loop written as 1..=latest.
root_entries_inclusive(latest) ==
  <<DirEntry(1, "Directory", NAME_DOT),
    DirEntry(1, "Directory", NAME_DOTDOT),
    DirEntry(2, "RegularFile", NAME_DESKTOP),
    DirEntry(3, "RegularFile", NAME_ABOUT),
    DirEntry(100, "Directory", NAME_LATEST)>>
  \o [i \in 1..latest |->
        DirEntry(i * COMIC_INODE_SHIFT, "Directory", to_string(i))]

\* The entries readdir builds for the root, given the latest number.
root_entries(latest) ==
  <<DirEntry(1, "Directory", NAME_DOT),
    DirEntry(1, "Directory", NAME_DOTDOT),
    DirEntry(2, "RegularFile", NAME_DESKTOP),
    DirEntry(3, "RegularFile", NAME_ABOUT),
    DirEntry(100, "Directory", NAME_LATEST)>>
  \o [i \in 1..(IF latest > 1 THEN latest - 1 ELSE 0) |->
        DirEntry(i * COMIC_INODE_SHIFT, "Directory", to_string(i))]

\* The entries readdir builds for an inode that is a multiple of the shift.
item_entries(ino) ==
  <<DirEntry(ino, "Directory", NAME_DOT),
    DirEntry(1, "Directory", NAME_DOTDOT),
    DirEntry(ino + 4, "RegularFile", NAME_TITLE),
    DirEntry(ino + 5, "RegularFile", NAME_ALT),
    DirEntry(ino + 6, "RegularFile", NAME_IMAGE)>>

\* The loop with the cursor of an entry taken to be its own index.
add_entries_cursor_is_index(entries, offset, cap) ==
  LET skip == as_usize(offset)
      first == IF skip >= Len(entries) THEN Len(entries) + 1 ELSE skip + 1
      last == Min(Len(entries), (first - 1) + cap)
  IN  [j \in 1..(IF last >= first THEN last - first + 1 ELSE 0) |->
        LET i == first + j - 1
        IN  [ino |-> entries[i].ino, offset |-> i - 1,
             kind |-> entries[i].kind, name |-> entries[i].name]]

\* The loop over entries.enumerate().skip(offset as usize): reply.add
\* takes entry i with cursor i + 1 and says "full" without taking it once
\* the buffer holds cap entries; then the loop breaks.
add_entries(entries, offset, cap) ==
  LET skip == as_usize(offset)
      first == IF skip >= Len(entries) THEN Len(entries) + 1 ELSE skip + 1
      last == Min(Len(entries), (first - 1) + cap)
  IN  [j \in 1..(IF last >= first THEN last - first + 1 ELSE 0) |->
        LET i == first + j - 1
        IN  [ino |-> entries[i].ino, offset |-> i, kind |-> entries[i].kind,
             name |-> entries[i].name]]

\* readdir asking for the latest id up front, before looking at the inode.
readdir_eager(s, ino, offset, cap, remote) ==
  LET s1 == get_latest_num(s, remote)
  IN  IF ino = 1 THEN
        Done(s1, ReplyDir(add_entries(root_entries(s1.latest_num), offset, cap)))
      ELSE IF ino % COMIC_INODE_SHIFT = 0 THEN
        Done(s1, ReplyDir(add_entries(item_entries(ino), offset, cap)))
      ELSE Done(s1, ReplyError(ENOENT))

readdir(s, ino, offset, cap, remote) ==
  IF ino = 1 THEN
    LET s1 == get_latest_num(s, remote)
    IN  Done(s1, ReplyDir(add_entries(root_entries(s1.latest_num), offset, cap)))
  ELSE IF ino % COMIC_INODE_SHIFT = 0 THEN
    Done(s, ReplyDir(add_entries(item_entries(ino), offset, cap)))
  ELSE Done(s, ReplyError(ENOENT))

----------------------------------------------------------------------------
(* The state machine: the dispatcher hands one request at a time to its   *)
(* handler, which runs to completion and replies; the reply is then taken *)
(* by the caller and the dispatcher is ready for the next request.        *)

NoListing ==
  [active |-> FALSE, dir |-> 0, acc |-> <<>>, cursor |-> 0, paged |-> FALSE,
   done |-> FALSE]

Init ==
  /\ latest_num = 0
  /\ comics = EmptyMap
  /\ panicked = FALSE
  /\ fetches = 0
  /\ latest_calls = 0
  /\ request = NoRequest
  /\ reply = NoReply
  /\ listing = NoListing

Idle == request = NoRequest /\ ~panicked

Handle(req, out) ==
  /\ latest_num' = out.s.latest_num
  /\ comics' = out.s.comics
  /\ panicked' = out.s.panicked
  /\ fetches' = out.s.fetches
  /\ latest_calls' = out.s.latest_calls
  /\ request' = req
  /\ reply' = IF out.s.panicked THEN NoReply ELSE out.reply

Serve(req, out) == Handle(req, out) /\ UNCHANGED listing

Lookup ==
  /\ Idle
  /\ \E parent \in InoSet, name \in NameSet, remote \in RemoteAnswers :
       Serve(Req("lookup", parent, name, 0, 0, 0),
             lookup(State, parent, name, remote))

GetAttr ==
  /\ Idle
  /\ \E ino \in InoSet, remote \in RemoteAnswers :
       Serve(Req("getattr", ino, <<>>, 0, 0, 0), getattr(State, ino, remote))

Read ==
  /\ Idle
  /\ \E ino \in InoSet, offset \in OffsetSet, size \in SizeSet :
       Serve(Req("read", ino, <<>>, offset, size, 0),
             read(State, ino, offset, size))

ReadLink ==
  /\ Idle
  /\ \E ino \in InoSet, remote \in RemoteAnswers :
       Serve(Req("readlink", ino, <<>>, 0, 0, 0), readlink(State, ino, remote))

ReadDir ==
  /\ Idle
  /\ \E ino \in InoSet, offset \in OffsetSet, cap \in 0..MaxCap,
        remote \in RemoteAnswers :
       Serve(Req("readdir", ino, <<>>, offset, 0, cap),
             readdir(State, ino, offset, cap, remote))

\* The reply has been sent; the session loop reads the next request.
Complete ==
  /\ request # NoRequest
  /\ ~panicked
  /\ request' = NoRequest
  /\ reply' = NoReply
  /\ UNCHANGED <<latest_num, comics, panicked, fetches, latest_calls, listing>>

Next == Lookup \/ GetAttr \/ Read \/ ReadLink \/ ReadDir \/ Complete

Spec == Init /\ [][Next]_vars

----------------------------------------------------------------------------
(* A caller that pages through one directory: it starts at cursor 0 and   *)
(* resumes every readdir at the cursor of the last entry it was given;    *)
(* the reply buffer takes any number 0..MaxCap of entries per call.  The  *)
(* listing is done when a call ends without the buffer having been full.  *)

EnumStart ==
  /\ Idle
  /\ ~listing.active \/ listing.done
  /\ \E dir \in InoSet :
       listing' = [NoListing EXCEPT !.active = TRUE, !.dir = dir]
  /\ UNCHANGED <<latest_num, comics, panicked, fetches, latest_calls, request,
                 reply>>

EnumStep ==
  /\ Idle
  /\ listing.active /\ ~listing.done
  /\ \E cap \in 0..MaxCap, remote \in RemoteAnswers :
       LET out == readdir(State, listing.dir, listing.cursor, cap, remote)
           sent == ~out.s.panicked
           got == IF sent /\ out.reply.kind = "dir"
                  THEN out.reply.entries ELSE <<>>
           ended == sent /\ (out.reply.kind # "dir" \/ Len(got) < cap)
       IN  /\ Handle(Req("readdir", listing.dir, <<>>, listing.cursor, 0, cap),
                     out)
           /\ listing' =
                [listing EXCEPT
                   !.acc = @ \o got,
                   !.cursor = IF got = <<>> THEN @ ELSE got[Len(got)].offset,
                   !.paged = @ \/ (got # <<>> /\ ~ended),
                   !.done = ended]

NextEnum == EnumStart \/ EnumStep \/ ReadLink \/ Complete

SpecEnum == Init /\ [][NextEnum]_vars

----------------------------------------------------------------------------
(* Vocabulary of the properties *)

NotFound == reply.kind = "error" /\ reply.errno = ENOENT

InvalidArgument == reply.kind = "error" /\ reply.errno = EINVAL

IsUtf8(name) == to_str(name).some

IsNumeric(name) == IsUtf8(name) /\ parse_u64(name).some

NumberOf(name) == parse_u64(name).val

\* The reply is an entry (lookup) or attr (getattr) for this inode and kind.
Resolves(ino, kind) ==
  /\ reply.kind = "entry"
  /\ reply.attr.ino = ino
  /\ reply.attr.kind = kind

\* The bytes [o, min(o + s, len)) of content.
Window(content, o, s) ==
  IF o >= Len(content) THEN <<>>
  ELSE SubSeq(content, o + 1, o + Min(s, Len(content) - o))

FieldNames == {NAME_TITLE, NAME_ALT, NAME_IMAGE}

FieldRemainder(name) ==
  IF name = NAME_TITLE THEN 4 ELSE IF name = NAME_ALT THEN 5 ELSE 6

\* Some answer of the remote; it is not consulted once latest_num is set.
AnyComic == CHOOSE a \in RemoteAnswers : a.ok

----------------------------------------------------------------------------
(* C1..C10 *)

\* C1: lookup(root, name) with a name that parses as the integer n resolves
\* to the item directory n * 1000 exactly when 1 <= n <= L - 1, L the latest
\* id; otherwise, in particular for n = L, the reply is NotFound.
C1_LookupRootNumericRange ==
  (request.op = "lookup" /\ request.ino = 1 /\ IsNumeric(request.name)) =>
    LET n == NumberOf(request.name)
    IN  IF 1 <= n /\ n <= latest_num - 1
        THEN Resolves(n * COMIC_INODE_SHIFT, "Directory")
        ELSE NotFound

\* C2: after a full readdir(root), the numeric names that lookup(root, name)
\* resolves to an item directory, each with its inode, are exactly the
\* numbered entries of the listing, each with its inode.
C2_LookupMatchesReaddir ==
  (/\ request.op = "readdir" /\ request.ino = 1 /\ request.offset = 0
   /\ reply.kind = "dir"
   /\ Len(reply.entries) = Len(root_entries(latest_num))) =>
    LET listed ==
          {<<reply.entries[i].name, reply.entries[i].ino>> :
             i \in {j \in 1..Len(reply.entries) :
                      IsNumeric(reply.entries[j].name)}}
        resolved ==
          {<<name, lookup(State, 1, name, AnyComic).reply.attr.ino>> :
             name \in {nm \in NameSet :
                /\ IsNumeric(nm)
                /\ lookup(State, 1, nm, AnyComic).reply.kind = "entry"
                /\ lookup(State, 1, nm, AnyComic).reply.attr.kind
                     = "Directory"}}
    IN  listed = resolved

\* C3: for an item directory p = n * 1000, lookup(p, "title.txt" / "alt.txt"
\* / "image.png") replies with inode p + 4 / p + 5 / p + 6, the inode that
\* readdir(p) lists under that name.
C3_FieldLookupInode ==
  (/\ request.op = "lookup"
   /\ request.ino >= COMIC_INODE_SHIFT
   /\ request.ino % COMIC_INODE_SHIFT = 0
   /\ request.name \in FieldNames) =>
    /\ reply.kind = "entry"
    /\ reply.attr.ino = request.ino + FieldRemainder(request.name)
    /\ \E i \in 1..Len(item_entries(request.ino)) :
         /\ item_entries(request.ino)[i].name = request.name
         /\ item_entries(request.ino)[i].ino = reply.attr.ino

\* C4: with a parent other than the root (an item directory, a fixed file,
\* the latest symlink, any inode from 2 on), lookup of a name that parses as
\* an integer replies NotFound.
C4_NumericOnlyUnderRoot ==
  (request.op = "lookup" /\ request.ino >= 2 /\ IsNumeric(request.name)) =>
    NotFound

\* An inode that is none of 1, 2, 3, 100 and whose remainder is none of
\* 0, 4, 5, 6.
Unassigned(i) ==
  /\ i \notin {1, 2, 3, 100}
  /\ (i % COMIC_INODE_SHIFT) \notin {0, 4, 5, 6}

\* C5: for an unassigned inode, getattr and read reply NotFound, and lookup
\* under it replies NotFound for every (UTF-8) name.
C5_UnassignedNotFound ==
  (/\ Unassigned(request.ino)
   /\ request.op \in {"getattr", "read", "lookup"}
   /\ IsUtf8(request.name)) =>
    NotFound

\* C6: an item inode whose id is 0 or greater than the latest id is
\* NotFound: getattr and readdir on id * 1000, getattr on id * 1000 + 4/5/6.
C6_OutOfRangeNotFound ==
  LET id == request.ino \div COMIC_INODE_SHIFT
      r == request.ino % COMIC_INODE_SHIFT
  IN  (/\ request.ino \notin {1, 2, 3, 100}
       /\ \/ request.op \in {"getattr", "readdir"} /\ r = 0
          \/ request.op = "getattr" /\ r \in {4, 5, 6}
       /\ id = 0 \/ (latest_num >= 1 /\ id > latest_num)) =>
        NotFound

\* C7: content-window law of the fixed files (inodes 2 and 3, content of
\* length L): read replies InvalidArgument when offset < 0, an empty
\* success when offset >= L, and otherwise exactly the min(size, L - offset)
\* bytes of the content that start at offset.
C7_ContentWindow ==
  (request.op = "read" /\ request.ino \in {2, 3}) =>
    LET content ==
          IF request.ino = 2 THEN XKCD_DESKTOP_CONTENT ELSE ABOUT_CONTENT
        L == Len(content)
        o == request.offset
    IN  IF o < 0 THEN InvalidArgument
        ELSE IF o >= L THEN reply.kind = "data" /\ reply.data = <<>>
        ELSE LET n == Min(request.size, L - o)
             IN  /\ reply.kind = "data"
                 /\ Len(reply.data) = n
                 /\ \A i \in 1..n : reply.data[i] = content[o + i]

\* C7 witness: a read of the desktop file from offset 1 whose offset + size
\* exceeds the machine word has returned the 57 bytes up to the end.
C7_Witness ==
  /\ request.op = "read" /\ request.ino = 2
  /\ request.offset = 1 /\ request.size = USIZE_MAX
  /\ reply.kind = "data"
  /\ Len(reply.data) = Len(XKCD_DESKTOP_CONTENT) - 1

\* C8: for an item id n in the valid range, read on n * 1000 + 4 / 5 / 6
\* succeeds, and returns the window [o, min(o + s, len)) of the cached title
\* (+4) or alt text (+5) of item n.
C8_FieldFilesReadable ==
  LET n == request.ino \div COMIC_INODE_SHIFT
      r == request.ino % COMIC_INODE_SHIFT
  IN  (/\ request.op = "read" /\ r \in {4, 5, 6}
       /\ 1 <= n /\ n <= latest_num
       /\ request.offset >= 0) =>
        /\ reply.kind = "data"
        /\ (n \in DOMAIN comics /\ r = 4) =>
             reply.data = Window(comics[n].title, request.offset, request.size)
        /\ (n \in DOMAIN comics /\ r = 5) =>
             reply.data = Window(comics[n].alt, request.offset, request.size)

\* C9: the size getattr reports for the field-file inode n * 1000 + 4 / 5
\* is the byte length of the title / alt text of item n's cached record.
C9_FieldSizeIsFieldLength ==
  LET n == request.ino \div COMIC_INODE_SHIFT
      r == request.ino % COMIC_INODE_SHIFT
  IN  (/\ request.op = "getattr" /\ n \in DOMAIN comics /\ r \in {4, 5}
       /\ reply.kind = "attr") =>
        reply.attr.size =
          Len(IF r = 4 THEN comics[n].title ELSE comics[n].alt)

\* C10 as stated: lookup(root, "xkcd.desktop") resolves to inode 2, a regular
\* file of size 59, the byte length of the desktop-link content that
\* read(2, 0, size >= 59) returns in full.
C10_DesktopSize59 ==
  /\ (request.op = "lookup" /\ request.ino = 1
      /\ request.name = NAME_DESKTOP) =>
       /\ Resolves(2, "RegularFile")
       /\ reply.attr.size = 59
       /\ reply.attr.size = Len(XKCD_DESKTOP_CONTENT)
  /\ (request.op = "read" /\ request.ino = 2 /\ request.offset = 0
      /\ request.size >= 59) =>
       /\ reply.kind = "data"
       /\ reply.data = XKCD_DESKTOP_CONTENT
       /\ Len(reply.data) = 59

\* C10 amended: lookup(root, "xkcd.desktop") resolves to inode 2, a regular
\* file of size 58, the byte length of the desktop-link content that
\* read(2, 0, size >= 58) returns in full.
C10_DesktopSize58 ==
  /\ (request.op = "lookup" /\ request.ino = 1
      /\ request.name = NAME_DESKTOP) =>
       /\ Resolves(2, "RegularFile")
       /\ reply.attr.size = 58
       /\ reply.attr.size = Len(XKCD_DESKTOP_CONTENT)
  /\ (request.op = "read" /\ request.ino = 2 /\ request.offset = 0
      /\ request.size >= 58) =>
       /\ reply.kind = "data"
       /\ reply.data = XKCD_DESKTOP_CONTENT
       /\ Len(reply.data) = 58

\* C10 witness: the lookup of xkcd.desktop under the root has been answered
\* with an entry.
C10_Witness ==
  /\ request.op = "lookup" /\ request.ino = 1
  /\ request.name = NAME_DESKTOP
  /\ reply.kind = "entry"

----------------------------------------------------------------------------
(* C11..C19 *)

\* What one readdir of dir from cursor 0 into an unbounded buffer delivers.
FullListing(dir) ==
  readdir(State, dir, 0, USIZE_MAX, AnyComic).reply.entries

\* C11: for the root and every item directory, the entries collected by
\* readdir calls that start at cursor 0 and resume at the cursor of the
\* last entry delivered, whatever the points at which the buffer was full,
\* are at every moment a prefix of the listing one unbounded readdir from
\* cursor 0 delivers, and the whole of it when the listing is done; the
\* entry at position i (from 0) carries the cursor i + 1.
C11_ResumableEnumeration ==
  (/\ listing.active /\ ~panicked
   /\ listing.dir = 1 \/ listing.dir % COMIC_INODE_SHIFT = 0) =>
    LET full == FullListing(listing.dir)
        n == Len(listing.acc)
    IN  /\ n <= Len(full)
        /\ listing.acc = SubSeq(full, 1, n)
        /\ listing.cursor = n
        /\ \A i \in 1..n : listing.acc[i].offset = i
        /\ listing.done => listing.acc = full

\* C11 witness: the root has been listed to its end (7 entries, latest id
\* 3) in more than one call.
C11_Witness ==
  /\ listing.active /\ listing.done /\ listing.paged
  /\ listing.dir = 1
  /\ latest_num = 3
  /\ Len(listing.acc) = 7

\* A name is the plain decimal numeral of n: digits only, no sign, no
\* leading zero.
IsDecimalOf(name, n) ==
  /\ name # <<>>
  /\ \A i \in 1..Len(name) : IsDigit(name[i])
  /\ Len(name) > 1 => name[1] # "0"
  /\ DigitsValue(name) = n

\* C12: a readdir(root) from cursor 0 with latest id L emits, in this order,
\* "." (1), ".." (1), "xkcd.desktop" (2), "about.txt" (3), "latest" (100),
\* then the directories named i with inode i * 1000 for i = 1 .. L - 1; when
\* the buffer does not fill up these are exactly 5 + (L - 1) entries.
C12_RootListing ==
  (/\ request.op = "readdir" /\ request.ino = 1 /\ request.offset = 0
   /\ ~panicked) =>
    LET es == reply.entries
        fixed ==
          <<<<1, NAME_DOT>>, <<1, NAME_DOTDOT>>, <<2, NAME_DESKTOP>>,
            <<3, NAME_ABOUT>>, <<100, NAME_LATEST>>>>
    IN  /\ reply.kind = "dir"
        /\ latest_num >= 1
        /\ Len(es) <= 5 + (latest_num - 1)
        /\ \A i \in 1..Len(es) :
             IF i <= 5 THEN <<es[i].ino, es[i].name>> = fixed[i]
             ELSE /\ es[i].ino = (i - 5) * COMIC_INODE_SHIFT
                  /\ IsDecimalOf(es[i].name, i - 5)
        /\ request.cap >= 5 + (latest_num - 1) =>
             Len(es) = 5 + (latest_num - 1)

\* C12 witness: with latest id 3 the root has been listed in one call: 7
\* entries, the last one the directory "2".
C12_Witness ==
  /\ request.op = "readdir" /\ request.ino = 1 /\ request.offset = 0
  /\ latest_num = 3
  /\ reply.kind = "dir" /\ Len(reply.entries) = 7
  /\ reply.entries[7].ino = 2 * COMIC_INODE_SHIFT

\* C13: the latest-pointer fetch is performed at most once in a session;
\* once a successful fetch has set latest_num, no step fetches again and no
\* step changes latest_num.
C13_FetchAtMostOnce ==
  [][/\ fetches' <= 1
     /\ latest_num # 0 =>
          /\ latest_num' = latest_num
          /\ fetches' = fetches]_vars

\* C13 witness: get_latest_num has been called a second time, by a request
\* that needs the latest id, and there is still only one fetch on record.
C13_Witness ==
  /\ latest_calls = 2 /\ fetches = 1 /\ latest_num # 0
  /\ request.op = "readlink" /\ request.ino = 100

\* C14: with latest id L, lookup(root, "latest") resolves to inode 100 with
\* kind symlink; readlink(100) returns the decimal numeral of L;
\* getattr(100).size is the number of bytes readlink(100) returns; readlink
\* on any other inode replies NotFound.
C14_LatestSymlink ==
  (request # NoRequest /\ ~panicked) =>
    /\ (request.op = "lookup" /\ request.ino = 1
        /\ request.name = NAME_LATEST) => Resolves(100, "Symlink")
    /\ (request.op = "readlink" /\ request.ino = 100) =>
         /\ reply.kind = "data"
         /\ IsDecimalOf(reply.data, latest_num)
    /\ (request.op = "getattr" /\ request.ino = 100) =>
         /\ reply.kind = "attr"
         /\ reply.attr.kind = "Symlink"
         /\ reply.attr.size = Len(readlink(State, 100, AnyComic).reply.data)
    /\ (request.op = "readlink" /\ request.ino # 100) => NotFound

\* C14 witness: with latest id 12, getattr(100) has reported a size of two
\* bytes.
C14_Witness ==
  /\ request.op = "getattr" /\ request.ino = 100
  /\ latest_num = MultiDigitLatest
  /\ reply.kind = "attr" /\ reply.attr.size = 2

\* The remote answers a session in the given state can still receive: any
\* successful one before the fetch, the one received after it.
SessionAnswers(s) ==
  {c \in RemoteAnswers : c.ok /\ (s.latest_num # 0 => c.comic.num = s.latest_num)}

\* C15: for every inode, the reply getattr gives (error, or kind, size,
\* permissions and inode) is the same before and after every step of a
\* session, so it is the same at any two points whatever requests lie
\* between them.  (The fields of XkcdFs are all a handler can read, so a
\* step that leaves both as they were cannot change the reply; the first
\* disjunct spares recomputing it.)
C15_HandleStability ==
  [][~panicked' =>
       \/ latest_num' = latest_num /\ comics' = comics
       \/ LET before == State
              after == State'
          IN  \A c \in SessionAnswers(after) : \A ino \in InoSet :
                getattr(after, ino, c).reply = getattr(before, ino, c).reply]_vars

\* C15 witness: getattr(100) has been answered by a session that had already
\* cached a two-digit latest id through an earlier request.
C15_Witness ==
  /\ request.op = "getattr" /\ request.ino = 100
  /\ latest_calls = 2 /\ fetches = 1
  /\ reply.kind = "attr" /\ reply.attr.size = 2

\* C16: for every item id n whose record is in the cache and every k in
\* {0, 4, 5, 6}, inode_to_comic(n * 1000 + k) returns the record of item n;
\* for every inode below 1000 it returns none.
C16_InodeToComicRoundTrip ==
  /\ \A n \in DOMAIN comics : \A k \in {0, 4, 5, 6} :
       inode_to_comic(State, n * COMIC_INODE_SHIFT + k) =
         [some |-> TRUE, val |-> comics[n]]
  /\ \A inode \in InoSet :
       inode < COMIC_INODE_SHIFT => ~inode_to_comic(State, inode).some

\* C17: for every entry (inode, kind, name) a readdir reply carries,
\* getattr(inode) succeeds and reports the kind the entry has.
C17_EntryKindMatchesGetattr ==
  (request.op = "readdir" /\ reply.kind = "dir" /\ ~panicked) =>
    \A i \in 1..Len(reply.entries) :
      LET e == reply.entries[i]
          a == getattr(State, e.ino, AnyComic).reply
      IN  a.kind = "attr" /\ a.attr.kind = e.kind

\* The requests the laziness claim allows to fetch.
ClaimedFetchers(r) ==
  \/ r.op = "readlink" /\ r.ino = 100
  \/ r.op = "getattr" /\ r.ino = 100
  \/ r.op = "readdir" /\ r.ino = 1
  \/ r.op = "lookup" /\ IsNumeric(r.name)

\* The step serves a request without fetching and leaves latest_num and the
\* item cache alone.
NoFetchStep ==
  /\ fetches' = fetches
  /\ latest_num' = latest_num
  /\ comics' = comics

\* C18 as stated: getattr on an inode other than 100, read, readdir on an
\* inode other than the root and lookup of a name that does not parse as an
\* unsigned integer perform no fetch and leave latest_num and the cache
\* unchanged; only readlink(100), getattr(100), readdir(root) and
\* numeric-name lookups can trigger the first fetch.
C18_LazyFrame_AsStated ==
  [][(request = NoRequest /\ request' # NoRequest) =>
       (ClaimedFetchers(request') \/ NoFetchStep)]_vars

\* C18, amended: the same frame condition with lookup(root, "latest") added
\* to the requests that can trigger the first fetch.
C18_LazyFrame ==
  [][(request = NoRequest /\ request' # NoRequest) =>
       \/ ClaimedFetchers(request')
       \/ request'.op = "lookup" /\ request'.ino = 1
          /\ request'.name = NAME_LATEST
       \/ NoFetchStep]_vars

\* C18 witness: a fresh session has answered a lookup of "latest" under a
\* parent that is not the root, and still has fetched nothing.
C18_Witness ==
  /\ request.op = "lookup" /\ request.name = NAME_LATEST /\ request.ino # 1
  /\ NotFound
  /\ fetches = 0 /\ latest_num = 0 /\ comics = EmptyMap

\* The reply kinds each operation's reply object can send.
ReplyKindsOf(op) ==
  CASE op = "lookup" -> {"entry", "error"}
    [] op = "getattr" -> {"attr", "error"}
    [] op = "read" -> {"data", "error"}
    [] op = "readlink" -> {"data", "error"}
    [] op = "readdir" -> {"dir", "error"}

\* C19: provided the latest-pointer fetch did not fail, every request has
\* run to completion with exactly one reply, of its operation's success kind
\* or an error with one error code and no payload, on every control path
\* (invalid name, NotFound and a full buffer included); and after a NotFound
\* or InvalidArgument reply the session has not crashed and takes the next
\* request.
C19_ExactlyOneReply ==
  /\ (request # NoRequest /\ ~panicked) =>
       /\ reply.kind \in ReplyKindsOf(request.op)
       /\ reply.kind = "error" =>
            /\ reply.errno \in {ENOENT, EINVAL}
            /\ reply.attr = NoAttr /\ reply.data = <<>> /\ reply.entries = <<>>
       /\ reply.kind # "error" => reply.errno = 0
  /\ (request # NoRequest /\ (NotFound \/ InvalidArgument)) =>
       /\ ~panicked
       /\ ENABLED Complete

\* C19 witness: after a successful fetch, a readdir(root) whose buffer
\* filled up before the listing ended has replied with the entries that fit.
C19_Witness ==
  /\ request.op = "readdir" /\ request.ino = 1
  /\ fetches = 1 /\ ~panicked
  /\ reply.kind = "dir"
  /\ request.cap < 5 /\ Len(reply.entries) = request.cap

============================================================================
